---------------------------- MODULE Spec2Model ----------------------------
(***************************************************************************)
(* A model of the self-play game driver of src/src/selfplay/game.cc:       *)
(*   - ply_to_lc0_move, the book-move resolver (specification RSpec);      *)
(*   - SelfPlayGame: construction, Play, Abort, WriteTrainingData          *)
(*     (specification Spec), with Play run by the driving thread and       *)
(*     Abort by a second thread;                                           *)
(*   - SelfPlayLimits::MakeSearchStopper (specification SSpec).            *)
(* Floating point values are modelled as exact integers in units of one    *)
(* percent (Hundred = 1.0).  The chess rules, the search engine and the    *)
(* PGN library are collaborators whose code is outside game.cc; they are   *)
(* modelled as small nondeterministic environments.                        *)
(* Left out: min_eval_, max_eval_ and nodes_total_ (lines 227, 247-249),   *)
(* which Play only accumulates and no modelled operation reads.  How long  *)
(* a search runs is left open in Spec (RunBlocking returns at any time);   *)
(* the stoppers that decide it are modelled on their own in SSpec.         *)
(***************************************************************************)
EXTENDS Integers, Sequences, FiniteSets, TLC

VARIABLES
  \* ---- resolver harness (RSpec) ----
  r_in,            \* the arguments of the ply_to_lc0_move call under test
  r_out,           \* its outcome, PendingOut before the call
  \* ---- stopper harness (SSpec) ----
  s_limits,        \* the SelfPlayLimits record: visits, playouts, movetime
  s_stoppers,      \* the ChainedSearchStopper MakeSearchStopper returned
  s_stats,         \* the running search's statistics the stoppers are fed
  \* ---- SelfPlayGame members ----
  options_,        \* options_[0..1]: the per-side uci options read by Play
  tree_,           \* tree_[0..1]: handles (indices into heap)
  heap,            \* the NodeTree objects
  search_,         \* the active-search slot: NoSearch or the Search instance
  abort_,          \* the cancellation flag
  mutex_,          \* holder of mutex_: Free, "play" or "abort"
  game_result_,
  training_data_,  \* sequence of V4 training records
  move_count_,
  \* ---- Play's arguments and locals ----
  args,            \* [training, enable_resign, opening] of the running call
  pc,              \* position of the driving thread
  blacks_move,
  openingMove,     \* the opening-line cursor (1-based index, Len+1 = end())
  inBook,
  thrown,          \* the exception that left Play, if any
  \* ---- the Abort() caller ----
  apc,             \* position of the aborting thread
  \* ---- WriteTrainingData's collaborator ----
  writer,          \* chunks received by TrainingDataWriter::WriteChunk
  \* ---- observation (history) variables, not program state ----
  obs              \* record of what happened on the in-flight ply, see ObsInit

gvars == <<options_, tree_, heap, search_, abort_, mutex_,
           game_result_, training_data_, move_count_, args, pc, blacks_move,
           openingMove, inBook, thrown, apc, writer, obs>>
rvars == <<r_in, r_out>>
svars == <<s_limits, s_stoppers, s_stats>>
vars  == <<r_in, r_out, s_limits, s_stoppers, s_stats, options_, tree_, heap, search_, abort_,
           mutex_, game_result_, training_data_, move_count_, args, pc,
           blacks_move, openingMove, inBook, thrown, apc, writer, obs>>

Free == "free"

(***************************************************************************)
(* Squares, moves, boards, book plies.                                     *)
(***************************************************************************)
\* lczero::BoardSquare(row, col)
BoardSquare(row, col) == [row |-> row, col |-> col]

\* Index of the last row of the board, the row of Black's king.
LastRow == 7
\* File of the king's home square.
KingFile == 4
\* File of the king-side rook.
ShortRookFile == 7
\* File of the queen-side rook.
LongRookFile == 0

NoPromotion == "-"

\* lczero::Move: from, to, promotion
MakeMoveRec(from, to, promo) == [from |-> from, to |-> to, promo |-> promo]

\* Move::Mirror: flips the rows of both squares.
Mirror(m) ==
  [m EXCEPT !.from = BoardSquare(LastRow - m.from.row, m.from.col),
            !.to   = BoardSquare(LastRow - m.to.row, m.to.col)]

\* Move::SetPromotion
SetPromotion(m, p) == [m EXCEPT !.promo = p]

\* The piece a board has on a square, "-" on an empty one.
PieceAt(board, sq) == IF sq \in DOMAIN board.at THEN board.at[sq] ELSE "-"

\* The outcomes of a call: a returned move, the exception, a failed assert.
NoMove         == MakeMoveRec(BoardSquare(-1, -1), BoardSquare(-1, -1),
                              NoPromotion)
Returned(m)    == [kind |-> "move", move |-> m, msg |-> <<>>]
Exception(msg) == [kind |-> "throw", move |-> NoMove, msg |-> msg]
AssertFailed   == [kind |-> "assert", move |-> NoMove, msg |-> <<>>]
PendingOut     == [kind |-> "pending", move |-> NoMove, msg |-> <<>>]

\* Lines 82-98: the switch on the promotion letter.  Case 'N' has no break
\* and falls into default: assert(false), which aborts unless the build
\* defines NDEBUG; so does any letter other than Q, R, B.
ApplyPromotion(lm, ply, ndebug) ==
  IF ply.promotion = NoPromotion THEN Returned(lm)
  ELSE CASE ply.promotion = "Q" -> Returned(SetPromotion(lm, "Q"))
         [] ply.promotion = "R" -> Returned(SetPromotion(lm, "R"))
         [] ply.promotion = "B" -> Returned(SetPromotion(lm, "B"))
         [] ply.promotion = "N" ->
              IF ndebug THEN Returned(SetPromotion(lm, "N")) ELSE AssertFailed
         [] OTHER -> IF ndebug THEN Returned(lm) ELSE AssertFailed

\* Lines 63-68: the moved-piece test; TRUE means "continue".
PieceMismatch(board, ply, from) ==
  LET knight_move == PieceAt(board, from) = "N"
      bishop_move == PieceAt(board, from) = "B"
      rook_move   == PieceAt(board, from) = "R"
      queen_move  == PieceAt(board, from) = "Q"
      king_move   == PieceAt(board, from) = "K"
      pawn_move   == PieceAt(board, from) = "P"
  IN  \/ ply.piece = "N" /\ ~knight_move
      \/ ply.piece = "B" /\ ~bishop_move
      \/ ply.piece = "R" /\ ~rook_move
      \/ ply.piece = "Q" /\ ~queen_move
      \/ ply.piece = "K" /\ ~king_move
      \/ ply.piece = "P" /\ ~pawn_move

\* Lines 48-109: the loop over board.GenerateLegalMoves(), from index i.
RECURSIVE ScanLegalMoves(_, _, _, _, _)
ScanLegalMoves(ply, board, mirror, ndebug, i) ==
  IF i > Len(board.moves) THEN Exception(ply.str)
  ELSE
    LET raw        == board.moves[i]
        legal_move == IF mirror THEN Mirror(raw) ELSE raw
    IN  IF legal_move.to.row = ply.toSquare.row /\
           legal_move.to.col = ply.toSquare.col
        THEN
          IF PieceMismatch(board, ply, raw.from)
            THEN ScanLegalMoves(ply, board, mirror, ndebug, i + 1)
          ELSE IF ply.fromSquare.col >= 0 /\
                  legal_move.from.col # ply.fromSquare.col
            THEN ScanLegalMoves(ply, board, mirror, ndebug, i + 1)
          ELSE IF ply.fromSquare.row >= 0 /\
                  legal_move.from.row # ply.fromSquare.row
            THEN ScanLegalMoves(ply, board, mirror, ndebug, i + 1)
          ELSE ApplyPromotion(legal_move, ply, ndebug)
        ELSE ScanLegalMoves(ply, board, mirror, ndebug, i + 1)

\* Lines 40-46: a castling ply is answered from the home squares alone.
CastleMove(ply, mirror) ==
  LET file_to  == IF ply.castle = "short" THEN ShortRookFile ELSE LongRookFile
      rowIndex == IF mirror THEN LastRow ELSE 0
  IN  MakeMoveRec(BoardSquare(rowIndex, KingFile),
                  BoardSquare(rowIndex, file_to), NoPromotion)

\* ply_to_lc0_move(ply, board, mirror); ndebug: the build defines NDEBUG.
ply_to_lc0_moveMutant(ply, board, mirror, ndebug) ==
  LET r == IF ply.castle # "none"
             THEN Returned(CastleMove(ply, mirror))
             ELSE ScanLegalMoves(ply, board, mirror, ndebug, 1)
  IN  IF r.kind = "throw" THEN Returned(NoMove) ELSE r

ply_to_lc0_move(ply, board, mirror, ndebug) ==
  IF ply.castle # "none"
    THEN Returned(CastleMove(ply, mirror))
    ELSE ScanLegalMoves(ply, board, mirror, ndebug, 1)


(***************************************************************************)
(* The resolver under test: RSpec draws a board, a ply and the mirror flag *)
(* and calls ply_to_lc0_move once.                                         *)
(***************************************************************************)
\* pgn::Ply as the resolver reads it: isShortCastle/isLongCastle, toSquare,
\* piece, fromSquare (colIndex/rowIndex are -1 when not given), promotion
\* and promoted().letter(), str().
MakePly(castle, piece, to, fromCol, fromRow, promotion) ==
  [valid |-> TRUE, castle |-> castle, piece |-> piece, toSquare |-> to,
   fromSquare |-> BoardSquare(fromRow, fromCol), promotion |-> promotion,
   str |-> <<castle, piece, to.row, to.col, fromCol, fromRow, promotion>>]

\* A half-move the opening line does not hold (pgn::Ply::valid() is false).
InvalidPly ==
  [valid |-> FALSE, castle |-> "none", piece |-> "-",
   toSquare |-> BoardSquare(-1, -1), fromSquare |-> BoardSquare(-1, -1),
   promotion |-> NoPromotion, str |-> <<>>]

\* Boards are held from the mover's side, as lczero::ChessBoard is: the
\* legal moves in generation order and the mover's piece on each source.
\* BoardA: Ke1 Rh1 Nb1 Nf3 Pe2, castling (king takes rook) is legal.
BoardA ==
  [moves |-> << MakeMoveRec(BoardSquare(1, 4), BoardSquare(2, 4), NoPromotion),
                MakeMoveRec(BoardSquare(0, 1), BoardSquare(1, 3), NoPromotion),
                MakeMoveRec(BoardSquare(2, 5), BoardSquare(1, 3), NoPromotion),
                MakeMoveRec(BoardSquare(0, 4), BoardSquare(0, 7), NoPromotion),
                MakeMoveRec(BoardSquare(0, 7), BoardSquare(0, 6), NoPromotion) >>,
   at |-> (BoardSquare(1, 4) :> "P" @@ BoardSquare(0, 1) :> "N" @@
           BoardSquare(2, 5) :> "N" @@ BoardSquare(0, 4) :> "K" @@
           BoardSquare(0, 7) :> "R")]

\* BoardB: Kc1 Pa7, the pawn promotes on a8; no rook, no castling.
BoardB ==
  [moves |-> << MakeMoveRec(BoardSquare(6, 0), BoardSquare(7, 0), "Q"),
                MakeMoveRec(BoardSquare(6, 0), BoardSquare(7, 0), "R"),
                MakeMoveRec(BoardSquare(6, 0), BoardSquare(7, 0), "B"),
                MakeMoveRec(BoardSquare(6, 0), BoardSquare(7, 0), "N"),
                MakeMoveRec(BoardSquare(0, 2), BoardSquare(1, 3), NoPromotion) >>,
   at |-> (BoardSquare(6, 0) :> "P" @@ BoardSquare(0, 2) :> "K")]

\* BoardC: a shuffled back rank, Kd1 Rh1 Pe2, no castling rights.
BoardC ==
  [moves |-> << MakeMoveRec(BoardSquare(0, 3), BoardSquare(1, 3), NoPromotion),
                MakeMoveRec(BoardSquare(1, 4), BoardSquare(2, 4), NoPromotion),
                MakeMoveRec(BoardSquare(0, 7), BoardSquare(0, 6), NoPromotion) >>,
   at |-> (BoardSquare(0, 3) :> "K" @@ BoardSquare(1, 4) :> "P" @@
           BoardSquare(0, 7) :> "R")]

Boards == {BoardA, BoardB, BoardC}

TargetSquares ==
  {BoardSquare(2, 4), BoardSquare(5, 4), BoardSquare(1, 3), BoardSquare(6, 3),
   BoardSquare(7, 0), BoardSquare(0, 0)}

Plies ==
  {MakePly("none", p, t, fc, fr, pr) :
     p \in {"P", "N", "K"}, t \in TargetSquares, fc \in {-1, 1, 5},
     fr \in {-1, 2}, pr \in {NoPromotion, "Q", "R", "B", "N"}}
  \cup {MakePly(c, "K", BoardSquare(-1, -1), -1, -1, NoPromotion) :
          c \in {"short", "long"}}

\* A legal castling move of a board: the king takes its own rook.
IsCastling(board, lm) ==
  PieceAt(board, lm.from) = "K" /\ PieceAt(board, lm.to) = "R"

\* Legal move number i of the board is what the ply describes.
Satisfies(board, i, ply, mirror) ==
  LET lm == board.moves[i]
      m  == IF mirror THEN Mirror(lm) ELSE lm
  IN  IF ply.castle # "none"
        THEN /\ IsCastling(board, lm)
             /\ (ply.castle = "short") = (lm.to.col > lm.from.col)
        ELSE /\ ~IsCastling(board, lm)
             /\ m.to = ply.toSquare
             /\ PieceAt(board, lm.from) = ply.piece
             /\ (ply.fromSquare.col >= 0 => m.from.col = ply.fromSquare.col)
             /\ (ply.fromSquare.row >= 0 => m.from.row = ply.fromSquare.row)
             /\ lm.promo = ply.promotion

Matching(board, ply, mirror) ==
  {i \in 1..Len(board.moves) : Satisfies(board, i, ply, mirror)}

RInputs == [ply : Plies, board : Boards, mirror : BOOLEAN]


(***************************************************************************)
(* SelfPlayLimits::MakeSearchStopper and the stoppers it chains.           *)
(***************************************************************************)
\* Largest limit a field of SelfPlayLimits is given.
MaxLimit == 2
\* The statistics of a search with no stopper are followed this far.
MaxStat == 3

\* The value of a limit that is not set.
Unset == -1

\* SelfPlayLimits: visits, playouts, movetime, each set or Unset.
LimitValues == Unset .. MaxLimit
Limits == [visits : LimitValues, playouts : LimitValues,
           movetime : LimitValues]

\* VisitsStopper(limit), PlayoutsStopper(limit), TimeLimitStopper(limit).
VisitsStopper(limit)    == [kind |-> "visits",   limit |-> limit]
PlayoutsStopper(limit)  == [kind |-> "playouts", limit |-> limit]
TimeLimitStopper(limit) == [kind |-> "time",     limit |-> limit]

\* Lines 397, 398, 401: the tests that a limit is set.
LimitIsSetMutant(v) == v > 0

LimitIsSet(v) == v >= 0

\* Lines 393-405: the chain holds, in this order, a stopper for each limit
\* that is set.
MakeSearchStopper(limits) ==
  LET r0 == <<>>
      r1 == IF LimitIsSet(limits.visits)
              THEN Append(r0, VisitsStopper(limits.visits)) ELSE r0
      r2 == IF LimitIsSet(limits.playouts)
              THEN Append(r1, PlayoutsStopper(limits.playouts)) ELSE r1
      r3 == IF LimitIsSet(limits.movetime)
              THEN Append(r2, TimeLimitStopper(limits.movetime)) ELSE r2
  IN  r3

\* SearchStopper::ShouldStop of one stopper: the statistic it watches has
\* reached its limit (total nodes, playouts since the move's start,
\* milliseconds since the move's start).
StopperShouldStop(s, stats) ==
  CASE s.kind = "visits"   -> stats.visits >= s.limit
    [] s.kind = "playouts" -> stats.playouts >= s.limit
    [] s.kind = "time"     -> stats.time >= s.limit

\* ChainedSearchStopper::ShouldStop: some stopper of the chain signals.
ChainShouldStop(chain, stats) ==
  \E k \in 1..Len(chain) : StopperShouldStop(chain[k], stats)

\* No chain built yet.
NoChain == [made |-> FALSE, chain |-> <<>>]

SParked == /\ s_limits = [visits |-> Unset, playouts |-> Unset,
                          movetime |-> Unset]
           /\ s_stoppers = NoChain
           /\ s_stats = [visits |-> 0, playouts |-> 0, time |-> 0]


(***************************************************************************)
(* SelfPlayGame.                                                           *)
(***************************************************************************)
UNDECIDED == "UNDECIDED"
WHITE_WON == "WHITE_WON"
BLACK_WON == "BLACK_WON"
DRAW      == "DRAW"

\* ---- bounds of the model ----
\* Position histories of this many moves are drawn (the rules' draw).
MaxPlies == 3
\* Largest visit count an edge of the head can have.
MaxN == 2
\* Low best moves the engine reports on one ply before an acceptable one.
MaxRetries == 1
\* Calls of Play on one game.
MaxPlayCalls == 2

\* The divisor of line 254; probabilities and evaluations are held in
\* hundredths, so 1.0f is Hundred.
Hundred == 100

\* ---- the position the games are played on ----
\* Every position has the same two legal moves for the side to move, held
\* from the mover's side: a pawn step and a knight move that mates.
PawnMove   == MakeMoveRec(BoardSquare(1, 4), BoardSquare(2, 4), NoPromotion)
KnightMove == MakeMoveRec(BoardSquare(0, 6), BoardSquare(2, 5), NoPromotion)

GameBoard ==
  [moves |-> <<PawnMove, KnightMove>>,
   at |-> (BoardSquare(1, 4) :> "P" @@ BoardSquare(0, 6) :> "N")]

Edges == 1..Len(GameBoard.moves)

\* Edge::GetMove(as_opponent): the move of edge i as the driver sees it,
\* mirrored when Black is to move.
EdgeMove(i, black) ==
  IF black THEN Mirror(GameBoard.moves[i]) ELSE GameBoard.moves[i]

\* PositionHistory::ComputeGameResult on a history of moves: the knight move
\* mates, MaxPlies moves are a draw.
ComputeGameResult(hist) ==
  IF hist = <<>> THEN UNDECIDED
  ELSE LET last       == hist[Len(hist)]
           blackMoved == (Len(hist) % 2) = 0
       IN  IF last = EdgeMove(2, blackMoved)
             THEN IF blackMoved THEN BLACK_WON ELSE WHITE_WON
           ELSE IF Len(hist) >= MaxPlies THEN DRAW
           ELSE UNDECIDED

\* ---- NodeTree ----
ZeroN == [i \in Edges |-> 0]

\* NodeTree::ResetToPosition(fen, {}): an empty history, an unsearched head.
ResetToPosition == [hist |-> <<>>, n |-> ZeroN]

\* NodeTree::MakeMove: the head moves to the child reached by m.
MakeMove(t, m) == [hist |-> Append(t.hist, m), n |-> ZeroN]

\* NodeTree::TrimTreeAtHead: drops the head's subtree and its statistics.
TrimTreeAtHead(t) == [t EXCEPT !.n = ZeroN]

\* NodeTree::GetPlyCount
GetPlyCount(t) == Len(t.hist)

\* NodeTree::IsBlackToMove
IsBlackToMove(t) == (Len(t.hist) % 2) = 1

\* PositionHistory::GetLength: the positions, the starting one included.
GetLength(t) == Len(t.hist) + 1

\* Lines 170-171 and 330-331: the move goes to tree_[0], and to tree_[1]
\* when that is another object.
MakeMoveOnTreesMutant(h, handles, m) ==
  LET h0 == [h EXCEPT ![handles[0]] = MakeMove(h[handles[0]], m)]
  IN  [h0 EXCEPT ![handles[1]] = MakeMove(h0[handles[1]], m)]

MakeMoveOnTrees(h, handles, m) ==
  LET h0 == [h EXCEPT ![handles[0]] = MakeMove(h[handles[0]], m)]
  IN  IF handles[0] # handles[1]
        THEN [h0 EXCEPT ![handles[1]] = MakeMove(h0[handles[1]], m)]
        ELSE h0

\* Lines 169-172: replay of the opening prefix.
RECURSIVE ReplayOpening(_, _, _, _)
ReplayOpening(h, handles, opening, i) ==
  IF i > Len(opening) THEN h
  ELSE ReplayOpening(MakeMoveOnTrees(h, handles, opening[i]), handles,
                     opening, i + 1)

\* Lines 160-168: tree_[0] is a new tree, tree_[1] the same object under
\* shared_tree and a second new tree otherwise.
ConstructHandles(shared_tree) == (0 :> 0 @@ 1 :> (IF shared_tree THEN 0 ELSE 1))

ConstructHeap(shared_tree, opening) ==
  ReplayOpening([o \in {0, 1} |-> ResetToPosition],
                ConstructHandles(shared_tree), opening, 1)

\* ---- options ----
\* uci_options of one player: kReuseTreeId, kResignWDLStyleId,
\* kResignPercentageId, kResignEarliestMoveId, kMinimumAllowedVistsId.
DefaultOptions ==
  [reuse |-> FALSE, wdlstyle |-> FALSE, pct |-> 0,  earliest |-> 0, minvisits |-> 0]
WdlOptions ==
  [reuse |-> TRUE,  wdlstyle |-> TRUE,  pct |-> 60, earliest |-> 2, minvisits |-> 2]
SimpleOptions ==
  [reuse |-> FALSE, wdlstyle |-> FALSE, pct |-> 20, earliest |-> 0, minvisits |-> 1]

\* The two players' options: the sides always differ.
PlayerOptions ==
  { (0 :> DefaultOptions @@ 1 :> WdlOptions),
    (0 :> WdlOptions     @@ 1 :> SimpleOptions),
    (0 :> SimpleOptions  @@ 1 :> DefaultOptions) }

\* Search::GetBestEval: (q, d) in hundredths, q = w - l and d the draw share.
EvalSet == { <<94, 2>>, <<0, 8>>, <<0, 96>>, <<0, 20>>, <<-70, 10>>, <<-100, 0>> }

\* ---- opening lines (pgn::Game::moves()) ----
BookE3  == MakePly("none", "P", BoardSquare(2, 4), -1, -1, NoPromotion)
BookE6  == MakePly("none", "P", BoardSquare(5, 4), -1, -1, NoPromotion)
BookBad == MakePly("none", "Q", BoardSquare(3, 3), -1, -1, NoPromotion)

BookEntry(w, b) == [white |-> w, black |-> b]

OpeningLines ==
  { <<>>,
    << BookEntry(BookE3, BookE6) >>,
    << BookEntry(InvalidPly, BookBad) >>,
    << BookEntry(BookE3, InvalidPly), BookEntry(BookE3, BookE6) >> }

\* Opening prefixes given to the constructor.
OpeningPrefixes == { <<>>, <<PawnMove>> }


\* ---- pieces of Play ----
\* Line 184, the loop condition's read of abort_.
AbortSeenAtLoop == abort_

\* Line 202, the read of abort_ under mutex_.
AbortSeenInGuardMutant == FALSE

AbortSeenInGuard == abort_

\* Line 228, the read of abort_ after RunBlocking returned.
AbortSeenAfterSearchMutant == FALSE

AbortSeenAfterSearch == abort_

\* Line 188: a decided position ends the loop.
GameOverMutant(res) == FALSE

GameOver(res) == res # UNDECIDED

\* Lines 192-195.
InBookMutant(line, cursor, black) ==
  /\ cursor <= Len(line)
  /\ line[cursor].white.valid

InBook(line, cursor, black) ==
  /\ cursor <= Len(line)
  /\ (IF black THEN line[cursor].black ELSE line[cursor].white).valid

\* Line 243.
MoveNumber(t) == (GetLength(t) \div 2) + 1

\* Lines 231-238: the record is appended when training.
AppendTrainingDataMutant(data, training, record) ==
  IF training /\ record.side_to_move = 0 THEN Append(data, record) ELSE data

AppendTrainingData(data, training, record) ==
  IF training THEN Append(data, record) ELSE data

\* Lines 235-237: the record of the head, its result still undecided.
GetV4TrainingData(t) ==
  [side_to_move |-> IF IsBlackToMove(t) THEN 1 ELSE 0,
   ply |-> GetPlyCount(t), result |-> 0]

\* Lines 244-246.
BestW(best_eval) == (best_eval[1] + Hundred - best_eval[2]) \div 2
BestD(best_eval) == best_eval[2]
BestL(best_eval) == BestW(best_eval) - best_eval[1]

\* Lines 240-241.
NormalizedEval(best_eval) == (best_eval[1] + Hundred) \div 2

\* Lines 256-270: UNDECIDED stands for falling through without a break.
WDLResignMutant(best_w, best_d, best_l, threshold, black) ==
  IF best_l > threshold
    THEN (IF black THEN WHITE_WON ELSE BLACK_WON)
  ELSE IF best_w > threshold
    THEN (IF black THEN BLACK_WON ELSE WHITE_WON)
  ELSE IF best_d > threshold
    THEN DRAW
  ELSE UNDECIDED

WDLResign(best_w, best_d, best_l, threshold, black) ==
  IF best_w > threshold
    THEN (IF black THEN BLACK_WON ELSE WHITE_WON)
  ELSE IF best_l > threshold
    THEN (IF black THEN WHITE_WON ELSE BLACK_WON)
  ELSE IF best_d > threshold
    THEN DRAW
  ELSE UNDECIDED

\* Lines 272-276.
SimpleResignMutant(eval, resignpct, black) ==
  IF eval <= resignpct
    THEN (IF black THEN WHITE_WON ELSE BLACK_WON)
    ELSE UNDECIDED

SimpleResign(eval, resignpct, black) ==
  IF eval < resignpct
    THEN (IF black THEN WHITE_WON ELSE BLACK_WON)
    ELSE UNDECIDED

\* Lines 250-278: the result the resignation rules set, UNDECIDED for none.
\* resignpct is pct / 100, which in hundredths is pct itself.
ResignationMutant(best_eval, opts, enable_resign, move_number, black) ==
  IF enable_resign
    THEN LET resignpct == opts.pct
         IN  IF opts.wdlstyle
               THEN WDLResign(BestW(best_eval), BestD(best_eval),
                              BestL(best_eval), Hundred - resignpct, black)
               ELSE SimpleResign(NormalizedEval(best_eval), resignpct, black)
    ELSE UNDECIDED

Resignation(best_eval, opts, enable_resign, move_number, black) ==
  IF enable_resign /\ move_number >= opts.earliest
    THEN LET resignpct == opts.pct
         IN  IF opts.wdlstyle
               THEN WDLResign(BestW(best_eval), BestD(best_eval),
                              BestL(best_eval), Hundred - resignpct, black)
               ELSE SimpleResign(NormalizedEval(best_eval), resignpct, black)
    ELSE UNDECIDED

\* Lines 283-292: the largest visit count over the head's edges and the
\* visit count of the edge whose move is `move`.
MaxEdgeN(n) == CHOOSE v \in {n[i] : i \in Edges} : \A i \in Edges : n[i] <= v

CurEdgeN(n, move, black) ==
  IF \E i \in Edges : EdgeMove(i, black) = move
    THEN n[CHOOSE i \in Edges : EdgeMove(i, black) = move]
    ELSE 0

\* Lines 295-297 (cur_n is at most MaxN: the cast to int changes nothing).
RetryAcceptsMutant(cur_n, max_n, minvisits) == cur_n >= minvisits

RetryAcceptsMaxMutant(cur_n, max_n, minvisits) ==
  cur_n = max_n \/ max_n >= minvisits

RetryAccepts(cur_n, max_n, minvisits) == cur_n = max_n \/ cur_n >= minvisits

\* Lines 300-307: the position after the candidate is still undecided.
CandidateUndecided(t, move) ==
  ComputeGameResult(Append(t.hist, move)) = UNDECIDED

\* Lines 326-328: the cursor after the ply.
AdvanceCursorMutant(line, cursor, black) ==
  IF cursor <= Len(line) THEN cursor + 1 ELSE cursor

AdvanceCursor(line, cursor, black) ==
  IF cursor <= Len(line) /\ black THEN cursor + 1 ELSE cursor

\* Lines 382-388.
OutcomeLabelMutant(result, black_to_move) ==
  IF result = WHITE_WON THEN (IF black_to_move THEN -1 ELSE 1)
  ELSE IF result = BLACK_WON THEN (IF black_to_move THEN -1 ELSE 1)
  ELSE 0

OutcomeLabel(result, black_to_move) ==
  IF result = WHITE_WON THEN (IF black_to_move THEN -1 ELSE 1)
  ELSE IF result = BLACK_WON THEN (IF black_to_move THEN 1 ELSE -1)
  ELSE 0

\* ---- state ----
\* A Search instance: id numbers the instances (0: the empty slot), side is
\* the tree it searches, aborted that Search::Abort reached it, best the
\* edge GetBestMove has settled on (0: none since the last ResetBestMove),
\* ranAfterAbort that its RunBlocking was entered after Abort had returned.
NoSearch == [id |-> 0, side |-> 0, aborted |-> FALSE, best |-> 0,
             ranAfterAbort |-> FALSE]

NoEval == <<0, 0>>

NoThrow == [is |-> FALSE, msg |-> <<>>]

\* What the properties need to remember; no action reads it to decide.
\*   plays           calls of Play started
\*   searches        Search instances constructed
\*   exit            how the last Play call ended
\*   lastComputed    value line 185 last assigned in this call, "none" before
\*   flagAtReturn    abort_ as it was when this ply's RunBlocking returned
\*   eval            best_eval as line 230 read it on this ply (NoEval
\*                   before, and once the retry loop has started)
\*   lows            best moves reported in this ply's retry loop whose visit
\*                   count was below the maximum and below the minimum
\*   lowsUndecided   those of them after which the game is still undecided
\*   discards        calls of discarded_callback on this ply
\*   resets, queries calls of ResetBestMove / GetBestMove in the retry loop
\*   tcommits        moves committed by Play while training
\*   tstops          training plies ended by resignation or a book failure
\*   log             every move given to MakeMoveOnTrees, in order
ObsInit(opening) ==
  [plays |-> 0, searches |-> 0, exit |-> "none",
   lastComputed |-> "none", flagAtReturn |-> FALSE, eval |-> NoEval,
   lows |-> 0, lowsUndecided |-> 0, discards |-> 0, resets |-> 0,
   queries |-> 0, tcommits |-> 0, tstops |-> 0, log |-> opening]

\* The per-ply part of obs, cleared when an iteration starts.
ObsNewPly(o) ==
  [o EXCEPT !.flagAtReturn = FALSE, !.eval = NoEval, !.lows = 0, !.lowsUndecided = 0,
            !.discards = 0, !.resets = 0, !.queries = 0]

RParked == /\ r_in = [ply |-> InvalidPly, board |-> BoardA, mirror |-> FALSE]
           /\ r_out = PendingOut

\* SelfPlayGame::SelfPlayGame (lines 148-173) and the members' initialisers.
GInit ==
  \E shared_tree \in BOOLEAN, opening \in OpeningPrefixes :
    /\ options_ \in PlayerOptions
    /\ tree_ = ConstructHandles(shared_tree)
    /\ heap = ConstructHeap(shared_tree, opening)
    /\ search_ = NoSearch
    /\ abort_ = FALSE
    /\ mutex_ = Free
    /\ game_result_ = UNDECIDED
    /\ training_data_ = <<>>
    /\ move_count_ = 0
    /\ args = [training |-> FALSE, enable_resign |-> FALSE, opening |-> <<>>]
    /\ pc = "idle"
    /\ blacks_move = FALSE
    /\ openingMove = 1
    /\ inBook = FALSE
    /\ thrown = NoThrow
    /\ apc = "idle"
    /\ writer = <<>>
    /\ obs = ObsInit(opening)

Init == GInit /\ RParked /\ SParked

Idx == IF blacks_move THEN 1 ELSE 0
Tree(i) == heap[tree_[i]]


(***************************************************************************)
(* SelfPlayGame::Play, one action per stretch of code between two points   *)
(* at which the other thread's writes can be seen.                         *)
(***************************************************************************)
\* Lines 175-181: the call, with its arguments; a later call on the same
\* game repeats the arguments of the first.
PlayCall ==
  /\ pc = "idle"
  /\ obs.plays < MaxPlayCalls
  /\ writer = <<>>
  /\ IF obs.plays = 0
       THEN \E training \in BOOLEAN, enable_resign \in BOOLEAN,
               opening \in OpeningLines :
              args' = [training |-> training,
                       enable_resign |-> enable_resign, opening |-> opening]
       ELSE args' = args
  /\ blacks_move' = ((GetPlyCount(Tree(0)) % 2) = 1)
  /\ openingMove' = 1
  /\ inBook' = FALSE
  /\ thrown' = NoThrow
  /\ pc' = "loop"
  /\ obs' = [ObsNewPly(obs) EXCEPT !.plays = @ + 1, !.exit = "none",
                                   !.lastComputed = "none"]
  /\ UNCHANGED <<options_, tree_, heap, search_, abort_, mutex_,
                 game_result_, training_data_, move_count_, apc, writer>>

\* Lines 184-198: the loop condition, the result of the position, inBook
\* and the trim of the mover's tree.
LoopHead ==
  /\ pc = "loop"
  /\ IF AbortSeenAtLoop
       THEN /\ pc' = "idle"
            /\ obs' = [obs EXCEPT !.exit = "abort"]
            /\ UNCHANGED <<game_result_, inBook, heap>>
       ELSE LET res == ComputeGameResult(Tree(0).hist)
            IN  /\ game_result_' = res
                /\ IF GameOver(res)
                     THEN /\ pc' = "idle"
                          /\ obs' = [obs EXCEPT !.exit = "result",
                                                !.lastComputed = res]
                          /\ UNCHANGED <<inBook, heap>>
                     ELSE /\ inBook' = InBook(args.opening, openingMove,
                                              blacks_move)
                          /\ heap' = IF ~options_[Idx].reuse
                                       THEN [heap EXCEPT ![tree_[Idx]] =
                                               TrimTreeAtHead(@)]
                                       ELSE heap
                          /\ pc' = "lock"
                          /\ obs' = [ObsNewPly(obs) EXCEPT
                                       !.lastComputed = res]
  /\ UNCHANGED <<options_, tree_, search_, abort_, mutex_, training_data_,
                 move_count_, args, blacks_move, openingMove, thrown, apc,
                 writer>>

\* Lines 202, 222 and 377: the lock_guard goes out of scope and mutex_,
\* held by `holder`, is free again.
LockGuardReleaseMutant(holder) == holder

LockGuardRelease(holder) == Free

\* Line 201: std::lock_guard takes mutex_.
DriverLock ==
  /\ pc = "lock"
  /\ mutex_ = Free
  /\ mutex_' = "play"
  /\ pc' = "locked"
  /\ UNCHANGED <<options_, tree_, heap, search_, abort_, game_result_,
                 training_data_, move_count_, args, blacks_move, openingMove,
                 inBook, thrown, apc, writer, obs>>

\* Lines 202-222: under mutex_, leave on abort_ or put a new Search into
\* search_; the guard's destructor frees mutex_ either way.
DriverCreate ==
  /\ pc = "locked"
  /\ mutex_' = LockGuardRelease(mutex_)
  /\ IF AbortSeenInGuard
       THEN /\ pc' = "idle"
            /\ obs' = [obs EXCEPT !.exit = "abort"]
            /\ UNCHANGED search_
       ELSE /\ search_' = [id |-> obs.searches + 1, side |-> Idx,
                           aborted |-> FALSE, best |-> 0,
                           ranAfterAbort |-> FALSE]
            /\ obs' = [obs EXCEPT !.searches = @ + 1]
            /\ pc' = "run"
  /\ UNCHANGED <<options_, tree_, heap, abort_, game_result_, training_data_,
                 move_count_, args, blacks_move, openingMove, inBook, thrown,
                 apc, writer>>

\* Line 225: search_->RunBlocking is entered.
RunBlockingStart ==
  /\ pc = "run"
  /\ pc' = "running"
  /\ search_' = [search_ EXCEPT !.ranAfterAbort = (apc = "returned")]
  /\ UNCHANGED <<options_, tree_, heap, abort_, mutex_, game_result_,
                 training_data_, move_count_, args, blacks_move, openingMove,
                 inBook, thrown, apc, writer, obs>>

\* Lines 225-227: RunBlocking returns, by completion or because the search
\* was aborted; move_count_++.  What the search found is drawn where the
\* driver first asks for it, in AfterSearch.
RunBlockingReturn ==
  /\ pc = "running"
  /\ move_count_' = move_count_ + 1
  /\ pc' = "searched"
  /\ obs' = [obs EXCEPT !.flagAtReturn = abort_]
  /\ UNCHANGED <<options_, tree_, heap, search_, abort_, mutex_,
                 game_result_, training_data_, args, blacks_move, openingMove,
                 inBook, thrown, apc, writer>>

\* Lines 228-278: the read of abort_, the best evaluation (any of EvalSet),
\* the training record, the resignation rules.  A ply that goes on to the
\* retry loop finds the visit counts the search left on the head's edges.
AfterSearch ==
  /\ pc = "searched"
  /\ IF AbortSeenAfterSearch
       THEN /\ pc' = "idle"
            /\ obs' = [obs EXCEPT !.exit = "abort"]
            /\ UNCHANGED <<training_data_, game_result_, heap>>
       ELSE \E best_eval \in EvalSet :
              LET res == Resignation(best_eval, options_[Idx],
                                     args.enable_resign,
                                     MoveNumber(Tree(0)), blacks_move)
              IN  /\ training_data_' =
                       AppendTrainingData(training_data_, args.training,
                                          GetV4TrainingData(Tree(Idx)))
                  /\ IF res # UNDECIDED
                       THEN /\ game_result_' = res
                            /\ pc' = "idle"
                            /\ obs' = [obs EXCEPT !.exit = "resign",
                                         !.eval = best_eval,
                                         !.tstops = IF args.training
                                                      THEN @ + 1 ELSE @]
                            /\ UNCHANGED heap
                       ELSE /\ UNCHANGED game_result_
                            /\ pc' = "retry"
                            /\ obs' = [obs EXCEPT !.eval = best_eval]
                            /\ \E n \in [Edges -> 0..MaxN] :
                                 heap' = [heap EXCEPT ![tree_[Idx]].n = n]
  /\ UNCHANGED <<options_, tree_, search_, abort_, mutex_, move_count_,
                 args, blacks_move, openingMove, inBook, thrown, apc, writer>>

\* Lines 281-313, one iteration: the engine reports a best move (any edge;
\* after MaxRetries refusals one that is accepted), which is accepted or
\* discarded and reset.
RetryIter ==
  /\ pc = "retry"
  /\ \E i \in Edges :
       LET t      == Tree(Idx)
           move   == EdgeMove(i, IsBlackToMove(t))
           max_n  == MaxEdgeN(t.n)
           cur_n  == CurEdgeN(t.n, move, IsBlackToMove(t))
           accept == RetryAccepts(cur_n, max_n, options_[Idx].minvisits)
           fire   == CandidateUndecided(t, move)
           \* for obs: the report is below the maximum and the minimum, and
           \* the game goes on after it
           low    == t.n[i] < max_n /\ t.n[i] < options_[Idx].minvisits
           open   == ComputeGameResult(Append(Tree(0).hist, move)) = UNDECIDED
       IN  /\ obs.resets >= MaxRetries => accept
           /\ IF accept
                THEN /\ search_' = [search_ EXCEPT !.best = i]
                     /\ pc' = "commit"
                     /\ obs' = [obs EXCEPT !.queries = @ + 1,
                                                !.eval = NoEval]
                ELSE /\ search_' = [search_ EXCEPT !.best = 0]
                     /\ pc' = "retry"
                     /\ obs' = [obs EXCEPT
                          !.eval = NoEval,
                          !.queries = @ + 1, !.resets = @ + 1,
                          !.lows = IF low THEN @ + 1 ELSE @,
                          !.lowsUndecided = IF low /\ open THEN @ + 1 ELSE @,
                          !.discards = IF fire THEN @ + 1 ELSE @]
  /\ UNCHANGED <<options_, tree_, heap, abort_, mutex_, game_result_,
                 training_data_, move_count_, args, blacks_move, openingMove,
                 inBook, thrown, apc, writer>>

\* Lines 315-332: the book move or the engine's best move goes to the
\* trees; an unresolved book ply leaves Play by the exception.
Commit ==
  /\ pc = "commit"
  /\ \E ndebug \in BOOLEAN :
       LET entry    == args.opening[openingMove]
           pgn_move == IF blacks_move THEN entry.black ELSE entry.white
           resolved == IF inBook
                         THEN ply_to_lc0_move(pgn_move, GameBoard,
                                              blacks_move, ndebug)
                         ELSE Returned(EdgeMove(search_.best, blacks_move))
       IN  IF resolved.kind # "move"
             THEN /\ thrown' = [is |-> TRUE, msg |-> resolved.msg]
                  /\ pc' = "idle"
                  /\ obs' = [obs EXCEPT !.exit = "throw",
                               !.tstops = IF args.training THEN @ + 1 ELSE @]
                  /\ UNCHANGED <<heap, openingMove, blacks_move>>
             ELSE /\ openingMove' = AdvanceCursor(args.opening, openingMove,
                                                  blacks_move)
                  /\ heap' = MakeMoveOnTrees(heap, tree_, resolved.move)
                  /\ blacks_move' = ~blacks_move
                  /\ pc' = "loop"
                  /\ obs' = [obs EXCEPT
                               !.log = Append(@, resolved.move),
                               !.tcommits = IF args.training THEN @ + 1 ELSE @]
                  /\ UNCHANGED thrown
  /\ UNCHANGED <<options_, tree_, search_, abort_, mutex_, game_result_,
                 training_data_, move_count_, args, inBook, apc, writer>>

(***************************************************************************)
(* SelfPlayGame::Abort, called once by another thread.                     *)
(***************************************************************************)
\* Line 374.
AbortLock ==
  /\ apc = "idle"
  /\ mutex_ = Free
  /\ mutex_' = "abort"
  /\ apc' = "locked"
  /\ UNCHANGED <<options_, tree_, heap, search_, abort_, game_result_,
                 training_data_, move_count_, args, pc, blacks_move,
                 openingMove, inBook, thrown, writer, obs>>

\* Line 375.
AbortSet ==
  /\ apc = "locked"
  /\ abort_' = TRUE
  /\ apc' = "flagged"
  /\ UNCHANGED <<options_, tree_, heap, search_, mutex_, game_result_,
                 training_data_, move_count_, args, pc, blacks_move,
                 openingMove, inBook, thrown, writer, obs>>

\* Lines 376-377: Search::Abort on the active search, then the unlock.
AbortForward ==
  /\ apc = "flagged"
  /\ search_' = IF search_.id # 0 THEN [search_ EXCEPT !.aborted = TRUE]
                                  ELSE search_
  /\ mutex_' = LockGuardRelease(mutex_)
  /\ apc' = "returned"
  /\ UNCHANGED <<options_, tree_, heap, abort_, game_result_, training_data_,
                 move_count_, args, pc, blacks_move, openingMove, inBook,
                 thrown, writer, obs>>

(***************************************************************************)
(* SelfPlayGame::WriteTrainingData, called once the game is over (no call   *)
(* of Play follows it).                                                    *)
(***************************************************************************)
\* Lines 380-390: each chunk is copied, labelled and written.
PatchedChunks ==
  [k \in 1..Len(training_data_) |->
     [training_data_[k] EXCEPT
        !.result = OutcomeLabel(game_result_,
                                training_data_[k].side_to_move = 1)]]

WriteTrainingData ==
  /\ pc = "idle"
  /\ obs.plays > 0
  /\ writer = <<>>
  /\ training_data_ # <<>>
  /\ writer' = writer \o PatchedChunks
  /\ UNCHANGED <<options_, tree_, heap, search_, abort_, mutex_,
                 game_result_, training_data_, move_count_, args, pc,
                 blacks_move, openingMove, inBook, thrown, apc, obs>>

Next ==
  \/ (PlayCall /\ UNCHANGED rvars /\ UNCHANGED svars)
  \/ (LoopHead /\ UNCHANGED rvars /\ UNCHANGED svars)
  \/ (DriverLock /\ UNCHANGED rvars /\ UNCHANGED svars)
  \/ (DriverCreate /\ UNCHANGED rvars /\ UNCHANGED svars)
  \/ (RunBlockingStart /\ UNCHANGED rvars /\ UNCHANGED svars)
  \/ (RunBlockingReturn /\ UNCHANGED rvars /\ UNCHANGED svars)
  \/ (AfterSearch /\ UNCHANGED rvars /\ UNCHANGED svars)
  \/ (RetryIter /\ UNCHANGED rvars /\ UNCHANGED svars)
  \/ (Commit /\ UNCHANGED rvars /\ UNCHANGED svars)
  \/ (AbortLock /\ UNCHANGED rvars /\ UNCHANGED svars)
  \/ (AbortSet /\ UNCHANGED rvars /\ UNCHANGED svars)
  \/ (AbortForward /\ UNCHANGED rvars /\ UNCHANGED svars)
  \/ (WriteTrainingData /\ UNCHANGED rvars /\ UNCHANGED svars)

Spec == Init /\ [][Next]_vars

\* The same, with the threads scheduled: Abort is called, and a thread that
\* can take a step of Play's guarded section or of Abort does take it.
FairSpec ==
  /\ Spec
  /\ WF_vars(DriverCreate /\ UNCHANGED rvars /\ UNCHANGED svars)
  /\ WF_vars((AbortLock \/ AbortSet \/ AbortForward)
               /\ UNCHANGED rvars /\ UNCHANGED svars)

(***************************************************************************)
(* The resolver harness.                                                   *)
(***************************************************************************)
GParked ==
  /\ options_ = [i \in {0, 1} |-> DefaultOptions]
  /\ tree_ = ConstructHandles(TRUE)
  /\ heap = ConstructHeap(TRUE, <<>>)
  /\ search_ = NoSearch
  /\ abort_ = FALSE
  /\ mutex_ = Free
  /\ game_result_ = UNDECIDED
  /\ training_data_ = <<>>
  /\ move_count_ = 0
  /\ args = [training |-> FALSE, enable_resign |-> FALSE, opening |-> <<>>]
  /\ pc = "idle"
  /\ blacks_move = FALSE
  /\ openingMove = 1
  /\ inBook = FALSE
  /\ thrown = NoThrow
  /\ apc = "idle"
  /\ writer = <<>>
  /\ obs = ObsInit(<<>>)

RInit == /\ r_in \in RInputs
         /\ r_out = PendingOut
         /\ GParked
         /\ SParked

\* The call of ply_to_lc0_move, in a build with or without NDEBUG.
RResolve ==
  /\ r_out.kind = "pending"
  /\ \E ndebug \in BOOLEAN :
       r_out' = ply_to_lc0_move(r_in.ply, r_in.board, r_in.mirror, ndebug)
  /\ UNCHANGED r_in
  /\ UNCHANGED gvars
  /\ UNCHANGED svars

RNext == RResolve

RSpec == RInit /\ [][RNext]_vars

(***************************************************************************)
(* The stopper harness: a limits record is drawn, MakeSearchStopper builds *)
(* the chain, and a search runs under it until the chain signals.          *)
(***************************************************************************)
\* The head may come with visits of an earlier search (tree reuse).
SInit == /\ s_limits \in Limits
         /\ s_stoppers = NoChain
         /\ s_stats \in [visits : {0, 1}, playouts : {0}, time : {0}]
         /\ GParked
         /\ RParked

\* Line 203: options_[idx].search_limits.MakeSearchStopper().
SMake ==
  /\ ~s_stoppers.made
  /\ s_stoppers' = [made |-> TRUE, chain |-> MakeSearchStopper(s_limits)]
  /\ UNCHANGED <<s_limits, s_stats>>
  /\ UNCHANGED gvars
  /\ UNCHANGED rvars

\* The search does one playout; it goes on only while the chain is silent.
SPlayout ==
  /\ s_stoppers.made
  /\ ~ChainShouldStop(s_stoppers.chain, s_stats)
  /\ s_stats.visits < MaxStat
  /\ s_stats' = [s_stats EXCEPT !.visits = @ + 1, !.playouts = @ + 1]
  /\ UNCHANGED <<s_limits, s_stoppers>>
  /\ UNCHANGED gvars
  /\ UNCHANGED rvars

\* A millisecond passes.
STick ==
  /\ s_stoppers.made
  /\ ~ChainShouldStop(s_stoppers.chain, s_stats)
  /\ s_stats.time < MaxStat
  /\ s_stats' = [s_stats EXCEPT !.time = @ + 1]
  /\ UNCHANGED <<s_limits, s_stoppers>>
  /\ UNCHANGED gvars
  /\ UNCHANGED rvars

SNext == SMake \/ SPlayout \/ STick

SSpec == SInit /\ [][SNext]_vars


(***************************************************************************)
(* Properties.                                                             *)
(***************************************************************************)
Hist(i) == heap[tree_[i]].hist

\* The in-flight ply is one on which abort_ was set before its search
\* returned: the driver is between the loop condition and the read of
\* RunBlocking's return, or has come back from a search that ended with the
\* flag already set.
FlaggedPly ==
  /\ abort_
  /\ \/ pc \in {"loop", "lock", "locked", "run", "running"}
     \/ pc = "searched" /\ obs.flagAtReturn

\* What a flagged ply may still do: nothing is committed, recorded or
\* decided, no Search is constructed, and the driver only moves on towards
\* the return of Play.
FlaggedStep ==
  FlaggedPly =>
    /\ heap' = heap
    /\ training_data_' = training_data_
    /\ game_result_' = game_result_
    /\ search_'.id = search_.id
    /\ obs'.searches = obs.searches
    /\ pc' # pc => pc' \in {"idle", "locked", "running", "searched"}
    /\ pc' = "idle" => obs'.exit = "abort"

\* C1: Abort always wins.  If abort_ is set before the in-flight ply's
\* search returns (or before it is constructed), that ply commits no move,
\* no resignation rule sets game_result_, no further search is constructed,
\* and Play returns by the abort with game_result_ as line 185 last
\* computed it from the position history in that call.
C1_AbortAlwaysWins ==
  /\ [][FlaggedStep]_vars
  /\ [](pc = "idle" /\ obs.exit = "abort" /\ obs.lastComputed # "none"
          => game_result_ = obs.lastComputed /\ game_result_ = UNDECIDED)

C1_Witness ==
  /\ pc = "idle" /\ obs.exit = "abort" /\ obs.flagAtReturn
  /\ search_.aborted /\ obs.lastComputed = UNDECIDED

\* C2 as stated: once game_result_ holds a terminal value no step assigns it
\* another value, constructs a search, appends a record or commits a move,
\* over any sequence of calls of Play and Abort.
C2_TerminalIsFinal ==
  [][game_result_ # UNDECIDED =>
       /\ game_result_' = game_result_
       /\ obs'.searches = obs.searches
       /\ training_data_' = training_data_
       /\ heap' = heap]_vars

\* C2, amended: within one call of Play a terminal value is assigned at most
\* once and the assignment ends the call (the driver is back at "idle" in
\* the same step); between calls nothing is searched, recorded, committed or
\* decided; a terminal value is only ever replaced by the first iteration of
\* a later call of Play, which recomputes it from the position history, and
\* never when it is the result of that history.
C2_TerminalEndsTheCall ==
  /\ [][game_result_' # game_result_ /\ game_result_' # UNDECIDED
          => pc # "idle" /\ pc' = "idle"]_vars
  /\ [][pc = "idle" =>
          /\ game_result_' = game_result_
          /\ obs'.searches = obs.searches
          /\ training_data_' = training_data_
          /\ heap' = heap]_vars
  /\ [][game_result_ # UNDECIDED /\ game_result_' # game_result_
          => /\ pc = "loop" /\ obs.lastComputed = "none" /\ obs.plays > 1
             /\ game_result_ # ComputeGameResult(Hist(0))
             /\ game_result_' = ComputeGameResult(Hist(0))]_vars

C2_Witness ==
  /\ obs.plays = 2 /\ pc = "idle" /\ obs.exit = "resign"
  /\ game_result_ # UNDECIDED /\ ComputeGameResult(Hist(0)) = UNDECIDED

\* C3: Abort cannot race with the construction of a search.  Once Abort has
\* returned no Search is constructed, and a search whose RunBlocking is
\* entered after Abort returned is the one Abort found in search_ and has
\* received Search::Abort.
C3_NoSearchRunsUnaborted ==
  /\ [](search_.ranAfterAbort => search_.id # 0 /\ search_.aborted)
  /\ [][apc = "returned" =>
          search_'.id = search_.id /\ obs'.searches = obs.searches]_vars

C3_Witness ==
  pc = "running" /\ search_.ranAfterAbort /\ search_.aborted

\* C4 as stated: on a ply whose retry loop was given a best move below the
\* maximum and below the minimum-allowed visits, the discarded-move callback
\* has fired, ResetBestMove was called and the best move was asked for again
\* before the move is accepted.
C4_DiscardAlwaysReported ==
  pc = "commit" /\ obs.lows >= 1
    => obs.discards >= 1 /\ obs.resets >= 1 /\ obs.queries >= 2

\* C4, amended: every such best move is answered by ResetBestMove and a new
\* query before a move is accepted, and by the discarded-move callback
\* exactly when the position after it is still undecided.
C4_RetryResetsAndRequeries ==
  pc \in {"retry", "commit"} =>
    /\ obs.resets = obs.lows
    /\ obs.queries = obs.lows + (IF pc = "commit" THEN 1 ELSE 0)
    /\ obs.discards = obs.lowsUndecided

C4_Witness ==
  pc = "commit" /\ obs.lows >= 1 /\ obs.resets >= 1 /\ obs.queries >= 2
    /\ obs.discards = 0

\* The step that reads the best evaluation with the resignation rules open.
ResignOpenStep(wdlstyle) ==
  /\ pc = "searched" /\ pc' # "searched"
  /\ ~abort_
  /\ args.enable_resign
  /\ options_[Idx].wdlstyle = wdlstyle
  /\ MoveNumber(Tree(0)) >= options_[Idx].earliest

MoverWins    == IF blacks_move THEN BLACK_WON ELSE WHITE_WON
NonMoverWins == IF blacks_move THEN WHITE_WON ELSE BLACK_WON

\* The win, draw and loss shares of an evaluation (q, d): w - l = q and
\* w + d + l = 1.
WinShare(ev)  == (Hundred + ev[1] - ev[2]) \div 2
DrawShare(ev) == ev[2]
LossShare(ev) == Hundred - WinShare(ev) - DrawShare(ev)

\* C5: WDL-style resignation.  With threshold = 1 - resign_percentage/100
\* the result is decided by the first of win > threshold (mover wins),
\* loss > threshold (mover loses), draw > threshold (DRAW), and the loop
\* stops with no move committed; if none holds the result stays UNDECIDED
\* and the ply goes on to move selection.
C5_WDLResignation ==
  [][ResignOpenStep(TRUE) =>
       LET ev        == obs'.eval
           threshold == Hundred - options_[Idx].pct
           expected  == IF WinShare(ev) > threshold THEN MoverWins
                        ELSE IF LossShare(ev) > threshold THEN NonMoverWins
                        ELSE IF DrawShare(ev) > threshold THEN DRAW
                        ELSE UNDECIDED
       IN  /\ game_result_' = expected
           /\ heap' = heap \/ expected = UNDECIDED
           /\ pc' = IF expected = UNDECIDED THEN "retry" ELSE "idle"]_vars

C5_Witness ==
  /\ pc = "idle" /\ obs.exit = "resign" /\ options_[Idx].wdlstyle
  /\ WinShare(obs.eval) > Hundred - options_[Idx].pct
  /\ LossShare(obs.eval) > Hundred - options_[Idx].pct
  /\ game_result_ = MoverWins

\* C6: simple-style resignation.  The non-mover wins and the loop stops
\* without a commit exactly when (value + 1) / 2 is below
\* resign_percentage / 100; with resign_percentage = 0 this never happens.
C6_SimpleResignation ==
  [][ResignOpenStep(FALSE) =>
       LET ev        == obs'.eval
           triggered == (ev[1] + Hundred) < 2 * options_[Idx].pct
       IN  /\ triggered <=> (pc' = "idle" /\ game_result_' = NonMoverWins)
           /\ ~triggered <=> (pc' = "retry" /\ game_result_' = UNDECIDED)
           /\ triggered => heap' = heap
           /\ options_[Idx].pct = 0 => ~triggered /\ pc' = "retry"]_vars

C6_Witness ==
  /\ pc = "idle" /\ obs.exit = "resign" /\ ~options_[Idx].wdlstyle
  /\ options_[Idx].pct = 20 /\ obs.eval = <<-70, 10>>
  /\ game_result_ = NonMoverWins

\* C7 as stated: with training enabled, between iterations and after Play
\* returned, training_data_ holds as many records as Play committed moves.
C7_RecordsEqualCommits ==
  pc \in {"loop", "idle"} => Len(training_data_) = obs.tcommits

\* C7, amended: the records are the moves committed while training plus one
\* for every call of Play that ended by resignation or by a book-move
\* failure, whose last ply was recorded and not played.
C7_RecordsEqualCommitsPlusStops ==
  pc \in {"loop", "idle"} => Len(training_data_) = obs.tcommits + obs.tstops

C7_Witness ==
  /\ pc = "idle" /\ obs.exit = "resign" /\ args.training
  /\ obs.tcommits >= 1 /\ Len(training_data_) = obs.tcommits + 1

\* C8: WriteTrainingData hands every stored record to the writer once, in
\* order, labelled +1 when the final result is a win for the record's side
\* to move, -1 when it is a win for the other side, 0 for DRAW and
\* UNDECIDED.
C8_WriterGetsLabelledRecords ==
  writer # <<>> =>
    /\ Len(writer) = Len(training_data_)
    /\ \A k \in 1..Len(writer) :
         /\ writer[k].ply = training_data_[k].ply
         /\ writer[k].side_to_move = training_data_[k].side_to_move
         /\ LET winner == IF game_result_ = WHITE_WON THEN 0
                          ELSE IF game_result_ = BLACK_WON THEN 1 ELSE 2
            IN  writer[k].result =
                  IF winner = 2 THEN 0
                  ELSE IF winner = writer[k].side_to_move THEN 1 ELSE -1

C8_Witness ==
  /\ \E k \in 1..Len(writer) : writer[k].result = 1
  /\ \E k \in 1..Len(writer) : writer[k].result = -1

\* C9: tree lockstep.  With two trees both hold the same move history after
\* construction and after every commit, whatever was trimmed or searched on
\* either; in either mode the history of tree_[0] is the opening prefix and
\* the committed moves, each applied once.
C9_TreeLockstep ==
  /\ tree_[0] # tree_[1] => heap[tree_[0]].hist = heap[tree_[1]].hist
  /\ heap[tree_[0]].hist = obs.log
  /\ heap[tree_[1]].hist = obs.log

C9_Witness ==
  /\ tree_[0] # tree_[1]
  /\ Len(heap[0].hist) >= 2
  /\ heap[0].n # heap[1].n

\* C10: ply_to_lc0_move never returns an incorrect move: on a ply that no
\* legal move of the board satisfies (castling plies included) it throws
\* the exception carrying the ply's notation.
C10_UnmatchedPlyThrows ==
  r_out.kind # "pending" /\ Matching(r_in.board, r_in.ply, r_in.mirror) = {}
    => r_out.kind = "throw" /\ r_out.msg = r_in.ply.str

\* The move the resolver is to return for legal move number i of the board:
\* the move in the coordinates of the notation, mirrored for Black.
Described(board, i, mirror) ==
  IF mirror THEN Mirror(board.moves[i]) ELSE board.moves[i]

\* C11: on a non-castling ply that exactly one legal move of the board
\* satisfies, ply_to_lc0_move returns that move (mirrored when resolving for
\* Black): its destination is the target square, the piece on its source
\* square is of the described type and its source file and rank are the
\* given ones; a castling ply is answered from the home squares, whatever
\* the board's legal moves are.
C11_ResolvesUniqueMatch ==
  r_out.kind # "pending" =>
    IF r_in.ply.castle # "none"
      THEN /\ r_out.kind = "move"
           /\ r_out.move.from = BoardSquare(IF r_in.mirror THEN 7 ELSE 0, 4)
           /\ r_out.move.to =
                BoardSquare(IF r_in.mirror THEN 7 ELSE 0,
                            IF r_in.ply.castle = "short" THEN 7 ELSE 0)
      ELSE LET S == Matching(r_in.board, r_in.ply, r_in.mirror)
           IN  Cardinality(S) = 1 =>
                 LET i == CHOOSE j \in S : TRUE
                     m == Described(r_in.board, i, r_in.mirror)
                 IN  /\ r_out.kind = "move"
                     /\ r_out.move = m
                     /\ r_out.move.to = r_in.ply.toSquare
                     /\ PieceAt(r_in.board, r_in.board.moves[i].from)
                          = r_in.ply.piece
                     /\ r_in.ply.fromSquare.col >= 0 =>
                          r_out.move.from.col = r_in.ply.fromSquare.col
                     /\ r_in.ply.fromSquare.row >= 0 =>
                          r_out.move.from.row = r_in.ply.fromSquare.row

\* What does hold of C11: the same, for every ply whose promotion letter is
\* none, Q, R or B.
ResolvesUniqueMatchNoKnightPromotion ==
  r_in.ply.promotion # "N" => C11_ResolvesUniqueMatch

\* C19: when a non-castling ply names a promotion piece and a legal move
\* passes the filters, the call completes normally and returns the move with
\* that promotion set, for each of the letters Q, R, B and N.
C19_PromotionApplied ==
  /\ r_out.kind # "pending"
  /\ r_in.ply.castle = "none"
  /\ r_in.ply.promotion \in {"Q", "R", "B", "N"}
  /\ Matching(r_in.board, r_in.ply, r_in.mirror) # {}
  => /\ r_out.kind = "move"
     /\ r_out.move.promo = r_in.ply.promotion

\* The half-move of the opening line for the side to move, at the cursor.
BookPly ==
  IF blacks_move THEN args.opening[openingMove].black
                 ELSE args.opening[openingMove].white

\* The driver is about to commit on a ply whose book half-move no legal
\* move of the board satisfies.
UnresolvableBookPly ==
  /\ pc = "commit"
  /\ InBook(args.opening, openingMove, blacks_move)
  /\ Matching(GameBoard, BookPly, blacks_move) = {}

\* C12: when a book ply cannot be resolved the unrecognized-move error
\* leaves Play with the ply's notation; that step commits nothing, both
\* trees keep the move history they had before the ply (in lockstep),
\* game_result_ stays UNDECIDED, and while the error stands no search is
\* constructed and no move committed.
C12_UnresolvedBookPlyEndsGame ==
  /\ [][UnresolvableBookPly /\ pc' # pc =>
          /\ thrown'.is /\ thrown'.msg = BookPly.str
          /\ pc' = "idle"
          /\ heap' = heap /\ obs'.log = obs.log
          /\ game_result_ = UNDECIDED /\ game_result_' = UNDECIDED]_vars
  /\ [](thrown.is =>
          /\ pc = "idle" /\ game_result_ = UNDECIDED
          /\ Hist(0) = Hist(1) /\ Hist(0) = obs.log)
  /\ [][thrown.is /\ thrown'.is =>
          obs'.searches = obs.searches /\ heap' = heap]_vars

C12_Witness ==
  /\ thrown.is /\ pc = "idle" /\ obs.exit = "throw"
  /\ tree_[0] # tree_[1] /\ Len(Hist(0)) >= 1 /\ obs.searches >= 2

\* The limits of s_limits that are set and the statistic each one bounds.
SetLimits ==
  {f \in {"visits", "playouts", "movetime"} : s_limits[f] >= 0}

BoundReached(f, stats) ==
  CASE f = "visits"   -> stats.visits >= s_limits.visits
    [] f = "playouts" -> stats.playouts >= s_limits.playouts
    [] f = "movetime" -> stats.time >= s_limits.movetime

StopperFor(f) ==
  CASE f = "visits"   -> [kind |-> "visits",   limit |-> s_limits.visits]
    [] f = "playouts" -> [kind |-> "playouts", limit |-> s_limits.playouts]
    [] f = "movetime" -> [kind |-> "time",     limit |-> s_limits.movetime]

\* C13: the chain MakeSearchStopper builds holds one sub-stopper for each
\* limit that is set (>= 0), carrying that limit, and nothing else; it
\* signals exactly when some set bound is reached, so the search never goes
\* on past one; with all three limits unset it is empty and never signals.
C13_ChainHoldsExactlySetLimits ==
  /\ [](s_stoppers.made =>
          LET chain == s_stoppers.chain
              held  == {chain[k] : k \in 1..Len(chain)}
          IN  /\ held = {StopperFor(f) : f \in SetLimits}
              /\ Len(chain) = Cardinality(SetLimits)
              /\ ChainShouldStop(chain, s_stats)
                   <=> \E f \in SetLimits : BoundReached(f, s_stats)
              /\ SetLimits = {} =>
                   chain = <<>> /\ ~ChainShouldStop(chain, s_stats))
  /\ [][s_stats' # s_stats =>
          \A f \in SetLimits : ~BoundReached(f, s_stats)]_vars

C13_Witness ==
  /\ s_stoppers.made
  /\ s_limits.visits = 2 /\ s_limits.playouts = Unset
  /\ s_limits.movetime = 1
  /\ s_stats.time = 1 /\ s_stats.visits < 2
  /\ ChainShouldStop(s_stoppers.chain, s_stats)

\* With no limit set the search runs on under an empty chain.
C13_WitnessEmpty ==
  /\ s_stoppers.made /\ SetLimits = {} /\ s_stoppers.chain = <<>>
  /\ s_stats.playouts = MaxStat - 1 /\ s_stats.time = MaxStat

\* C14: the retry loop re-checks abort_ on every iteration.  Once abort_ is
\* set while the driver is in the retry loop, the loop asks for no further
\* best move and accepts none: its next step leaves Play by the abort, with
\* no move committed.
C14_RetryLoopSeesAbort ==
  [][pc = "retry" /\ abort_ =>
       /\ obs'.queries = obs.queries
       /\ pc' \in {"retry", "idle"}
       /\ pc' = "idle" => obs'.exit = "abort"]_vars

\* A move is committed on a ply whose retry loop ran after Abort returned.
AbortedPlyCommits ==
  /\ pc = "commit" /\ apc = "returned" /\ obs.resets >= 1
  /\ ENABLED Commit

\* C15: the move that left the retry loop as accepted has, at the mover's
\* head, the largest visit count of the head's edges or at least the mover's
\* minimum-allowed-visits, and it is the move committed when the ply is not
\* in book; with minimum-allowed-visits = 0 the first best move is accepted:
\* nothing is reset and the discarded-move callback does not fire.
C15_AcceptedMoveHasVisits ==
  /\ [](pc = "commit" =>
          LET n == Tree(Idx).n
              b == search_.best
          IN  /\ b \in Edges
              /\ \/ \A j \in Edges : n[j] <= n[b]
                 \/ n[b] >= options_[Idx].minvisits)
  /\ [][/\ pc = "commit" /\ pc' = "loop"
         /\ ~InBook(args.opening, openingMove, blacks_move)
         => obs'.log = Append(obs.log, EdgeMove(search_.best, blacks_move))]_vars
  /\ [](pc \in {"retry", "commit"} /\ options_[Idx].minvisits = 0 =>
          /\ obs.resets = 0 /\ obs.discards = 0
          /\ obs.queries = IF pc = "commit" THEN 1 ELSE 0)

C15_Witness ==
  /\ pc = "commit" /\ ~inBook
  /\ options_[Idx].minvisits > 0
  /\ Tree(Idx).n[search_.best] >= options_[Idx].minvisits
  /\ \E j \in Edges : Tree(Idx).n[j] > Tree(Idx).n[search_.best]

\* The opening line holds a valid half-move for the side to move at the
\* cursor.
BookHalfValid == openingMove <= Len(args.opening) /\ BookPly.valid

\* C16: the move committed on a ply is, when the opening line holds a valid
\* half-move for the side to move at the cursor, the legal move of the
\* current board that half-move describes (mirrored for Black), whatever
\* the search reported; on every other ply it is the search move the retry
\* loop accepted.
C16_MoveDetermination ==
  [][pc = "commit" /\ pc' = "loop" =>
       /\ Len(obs'.log) = Len(obs.log) + 1
       /\ LET committed == obs'.log[Len(obs'.log)]
          IN  IF BookHalfValid
                THEN \E i \in Matching(GameBoard, BookPly, blacks_move) :
                       committed = Described(GameBoard, i, blacks_move)
                ELSE committed = EdgeMove(search_.best, blacks_move)]_vars

\* A book ply just committed the pawn move while the search had settled on
\* the knight move.
C16_Witness ==
  /\ pc = "loop" /\ inBook /\ search_.best = 2
  /\ Len(obs.log) >= 1
  /\ obs.log[Len(obs.log)] = EdgeMove(1, ~blacks_move)

\* C17 as stated: within a call of Play the cursor moves only on a Black ply
\* whose book half-move was resolved and committed, and then by one entry.
C17_CursorAdvancesOnBookBlackOnly ==
  [][openingMove' # openingMove /\ pc # "idle" =>
       /\ pc = "commit" /\ pc' = "loop"
       /\ blacks_move
       /\ BookHalfValid
       /\ openingMove' = openingMove + 1]_vars

\* C17, amended: within a call of Play the cursor moves only at the commit
\* of a Black ply, by one entry, and it does so on every committed Black
\* ply on which it is not at the end of the line, whether the move came from
\* the book or from the search; it never moves on a White ply or on a ply
\* that ends without a commit.
C17_CursorAdvancesOnBlackCommit ==
  /\ [][openingMove' # openingMove /\ pc # "idle" =>
          /\ pc = "commit" /\ pc' = "loop"
          /\ blacks_move
          /\ openingMove <= Len(args.opening)
          /\ openingMove' = openingMove + 1
          /\ Len(obs'.log) = Len(obs.log) + 1]_vars
  /\ [][/\ pc = "commit" /\ pc' = "loop" /\ blacks_move
         /\ openingMove <= Len(args.opening)
         => openingMove' = openingMove + 1]_vars
  /\ [](openingMove \in 1..(Len(args.opening) + 1))

\* The cursor has passed an entry whose Black half is not valid: the Black
\* ply just committed was played by the search.
C17_Witness ==
  /\ pc = "loop" /\ openingMove = 2 /\ ~inBook /\ ~blacks_move
  /\ Len(args.opening) >= 2
  /\ ~args.opening[1].black.valid

\* The resignation rules are closed on the in-flight ply: resignation is
\* disabled in this call of Play, or the move number is below the mover's
\* resign-earliest-move.
ResignClosed ==
  \/ ~args.enable_resign
  \/ (Len(Hist(0)) + 1) \div 2 + 1 < options_[Idx].earliest

\* C18: resignation gating.  On a ply on which the rules are closed the
\* step that reads the evaluation leaves game_result_ alone and goes on to
\* move selection (or leaves by the abort); in a game played with
\* resignation disabled a terminal game_result_ is the result of the
\* position history, as line 185 computed it.
C18_ResignationGated ==
  /\ [][pc = "searched" /\ pc' # pc /\ ResignClosed =>
          /\ game_result_' = game_result_
          /\ pc' = "retry" \/ (pc' = "idle" /\ obs'.exit = "abort")]_vars
  /\ [](obs.plays >= 1 /\ ~args.enable_resign =>
          /\ obs.exit # "resign"
          /\ game_result_ # UNDECIDED =>
               game_result_ = ComputeGameResult(Hist(0)))

\* Resignation is enabled, the mover's WDL rule would be met by the
\* evaluation, and the ply went on because the move number is too low.
C18_Witness ==
  /\ pc = "retry" /\ args.enable_resign /\ ResignClosed
  /\ options_[Idx].wdlstyle
  /\ WinShare(obs.eval) > Hundred - options_[Idx].pct
  /\ game_result_ = UNDECIDED

\* C20: the driver holds mutex_ only in the guarded section that constructs
\* the search, never while it is in RunBlocking or in the retry loop; the
\* holder of mutex_ can always take its next step, so Play and Abort do not
\* deadlock; a search is constructed only when every earlier one has
\* returned, so at most one is in flight; and Abort, once called, takes
\* mutex_ and returns.
C20_GuardOnlyAroundConstruction ==
  /\ [](mutex_ = "play" <=> pc = "locked")
  /\ [](mutex_ = "abort" <=> apc \in {"locked", "flagged"})
  /\ [](pc \in {"run", "running", "searched", "retry", "commit"}
          => mutex_ # "play")
  /\ [](mutex_ = "play" => ENABLED DriverCreate)
  /\ [](mutex_ = "abort" => ENABLED (AbortSet \/ AbortForward))
  /\ [](obs.searches - move_count_ =
          IF pc \in {"run", "running"} THEN 1 ELSE 0)
  /\ <>(apc = "returned")

\* Abort took mutex_ while the driver was blocked in RunBlocking.
C20_Witness ==
  pc = "running" /\ mutex_ = "abort" /\ apc = "flagged"

=============================================================================
